---- MODULE Spec2Model ----
(***************************************************************************)
(* Model of the devsuit dashboard: the client health analysis              *)
(* (githubService.analyzeRepositoryHealth), the server analysis route      *)
(* (POST /api/analyze/repo), and the issue classifier of the AutoLabeler   *)
(* page and of the webhook server.                                         *)
(*                                                                         *)
(* Time is counted in ticks; one day (1000*60*60*24 ms in the source) is   *)
(* TicksPerDay ticks, so that Math.floor of the day quotient is a real     *)
(* rounding step.  Strings that the code inspects character by character   *)
(* (titles, bodies, keywords) are sequences of one-character strings.      *)
(***************************************************************************)
EXTENDS Integers, Sequences, FiniteSets, TLC

VARIABLES github, clock, clientRun, serverRun

VARIABLES issue, labelingRules, recentActivity, webhookReply

VARIABLES webhookSecret, webhookHits, webhookExchange

VARIABLES user, token, isLoading, error, localStorage, serviceToken, location, authPc,
          exchangeRequests, lastResponse, pageLoads, screen, oauthHistory

VARIABLES repoInput, loading, analysisError, analysisResult, inFlight, toast

VARIABLES graphqlCall

healthVars == <<github, clock, clientRun, serverRun>>

labelVars == <<issue, labelingRules, recentActivity, webhookReply>>

hookVars == <<webhookSecret, webhookHits, webhookExchange>>

authVars ==
    <<user, token, isLoading, error, localStorage, serviceToken, location, authPc,
      exchangeRequests, lastResponse, pageLoads, screen, oauthHistory>>

analyzerVars == <<repoInput, loading, analysisError, analysisResult, inFlight, toast>>

pageVars == <<authVars, analyzerVars, graphqlCall>>

vars == <<healthVars, labelVars, hookVars, pageVars>>

(***************************************************************************)
(* Bounds of the model.                                                    *)
(***************************************************************************)
TicksPerDay == 2

MaxContributors == 5

MaxReleases == 1

MaxTitles == 4

MaxBodies == 4

MaxItems == 2

MaxPageLoads == 3

MaxInFlight == 2

(***************************************************************************)
(* JavaScript values.                                                      *)
(***************************************************************************)
Undefined == "<undefined>"

Null == "<null>"

\* JavaScript truthiness of a string-or-null value
Truthy(v) == v \notin {Null, Undefined, ""}

Min(a, b) == IF a <= b THEN a ELSE b

Max(a, b) == IF a >= b THEN a ELSE b

\* Math.floor(a / b) for b > 0, a of either sign
MathFloorDiv(a, b) == a \div b

\* Math.round(num / den) for num >= 0, den > 0 (halves round up)
MathRoundDiv(num, den) == (2 * num + den) \div (2 * den)

\* array.slice(0, n)
Slice(s, n) == SubSeq(s, 1, Min(n, Len(s)))

\* array.filter(pred).length
RECURSIVE CountPass(_)
CountPass(checks) ==
    IF checks = <<>> THEN 0
    ELSE (IF Head(checks).status = "pass" THEN 1 ELSE 0) + CountPass(Tail(checks))

(***************************************************************************)
(* The repository as GitHub holds it, and the instants the clock shows.    *)
(***************************************************************************)
ClockStart == 400 * TicksPerDay

\* ages of the last push in ticks: a push after the clock reading, 5 days, the
\* last tick of day 30, the first of day 31, the last of day 90, the first of
\* day 91
AgeSamples ==
    { -1, 5 * TicksPerDay,
      30 * TicksPerDay + (TicksPerDay - 1), 31 * TicksPerDay,
      90 * TicksPerDay + (TicksPerDay - 1), 91 * TicksPerDay }

PushedAtSamples == {ClockStart - a : a \in AgeSamples}

IssueCountSamples == {10, 50}

DescriptionSamples == {"", Null, "A tool"}

LicenseSamples == {Null, "MIT"}

Repositories ==
    [ readme : BOOLEAN,
      license : LicenseSamples,
      pushed_at : PushedAtSamples,
      open_issues_count : IssueCountSamples,
      contributors : 0..MaxContributors,
      description : DescriptionSamples,
      releases : 0..MaxReleases ]

\* a list of n entries (contributors, releases)
ListOf(n) == [i \in 1..n |-> i]

ClientEndpoints ==
    {"repository", "readme", "license", "contributors", "issues", "pulls", "releases"}

ServerEndpoints == {"repository", "contributors", "readme", "license"}

(***************************************************************************)
(* githubService.ts: the fetches of analyzeRepositoryHealth.  failed is    *)
(* the set of requests that the network or GitHub rejects; a README or a   *)
(* license that does not exist is a rejected request as well (404).        *)
(***************************************************************************)
Rejected == [rejected |-> TRUE]

getRepository(g, failed) ==
    IF "repository" \in failed THEN Rejected
    ELSE [rejected |-> FALSE,
          value |-> [pushed_at |-> g.pushed_at,
                     open_issues_count |-> g.open_issues_count,
                     description |-> g.description]]

getRepositoryReadme(g, failed) ==
    IF "readme" \in failed \/ ~g.readme THEN Null ELSE "README"

getRepositoryLicense(g, failed) ==
    IF "license" \in failed \/ g.license = Null THEN Null ELSE g.license

getRepositoryContributors(g, failed) ==
    IF "contributors" \in failed THEN Rejected
    ELSE [rejected |-> FALSE, value |-> ListOf(g.contributors)]

\* getRepositoryReleases(owner, repo).catch(() => [])
getRepositoryReleasesOrEmpty(g, failed) ==
    IF "releases" \in failed THEN <<>> ELSE ListOf(g.releases)

daysSinceUpdateOf(now, pushed_at) == MathFloorDiv(now - pushed_at, TicksPerDay)

\* a missing README reported as a warning
readmeCheck_warning(readme) ==
    [ name |-> "README.md Present",
      status |-> IF Truthy(readme) THEN "pass" ELSE "warning",
      description |-> IF Truthy(readme) THEN <<"Repository has a README file">>
                      ELSE <<"No README file found">>,
      recommendation |->
          IF ~Truthy(readme)
          THEN "Add a comprehensive README file to help users understand your project"
          ELSE Undefined ]

readmeCheck(readme) ==
    [ name |-> "README.md Present",
      status |-> IF Truthy(readme) THEN "pass" ELSE "fail",
      description |-> IF Truthy(readme) THEN <<"Repository has a README file">>
                      ELSE <<"No README file found">>,
      recommendation |->
          IF ~Truthy(readme)
          THEN "Add a comprehensive README file to help users understand your project"
          ELSE Undefined ]

licenseCheck(license) ==
    [ name |-> "License File",
      status |-> IF Truthy(license) THEN "pass" ELSE "warning",
      description |-> IF Truthy(license) THEN <<license, " license detected">>
                      ELSE <<"No license file found">>,
      recommendation |->
          IF ~Truthy(license) THEN "Add a license file to clarify usage rights"
          ELSE Undefined ]

\* the activity thresholds taken as strict bounds
recentActivityCheck_strict(daysSinceUpdate) ==
    [ name |-> "Recent Activity",
      status |-> IF daysSinceUpdate < 30 THEN "pass"
                 ELSE IF daysSinceUpdate < 90 THEN "warning" ELSE "fail",
      description |-> <<"Last updated ", daysSinceUpdate, " days ago">>,
      recommendation |->
          IF daysSinceUpdate >= 30
          THEN "Consider updating the repository more frequently"
          ELSE Undefined ]

recentActivityCheck(daysSinceUpdate) ==
    [ name |-> "Recent Activity",
      status |-> IF daysSinceUpdate <= 30 THEN "pass"
                 ELSE IF daysSinceUpdate <= 90 THEN "warning" ELSE "fail",
      description |-> <<"Last updated ", daysSinceUpdate, " days ago">>,
      recommendation |->
          IF daysSinceUpdate > 30
          THEN "Consider updating the repository more frequently"
          ELSE Undefined ]

\* the recommendation of the issue check given from 50 issues exclusive
issueManagementCheck_lateAdvice(repository) ==
    [ name |-> "Issue Management",
      status |-> IF repository.open_issues_count < 50 THEN "pass" ELSE "warning",
      description |-> <<repository.open_issues_count, " open issues">>,
      recommendation |->
          IF repository.open_issues_count > 50
          THEN "Consider addressing some open issues"
          ELSE Undefined ]

issueManagementCheck(repository) ==
    [ name |-> "Issue Management",
      status |-> IF repository.open_issues_count < 50 THEN "pass" ELSE "warning",
      description |-> <<repository.open_issues_count, " open issues">>,
      recommendation |->
          IF repository.open_issues_count >= 50
          THEN "Consider addressing some open issues"
          ELSE Undefined ]

\* the contributor thresholds tested in the wrong order
communityEngagementCheck_swapped(contributors) ==
    [ name |-> "Community Engagement",
      status |-> IF Len(contributors) >= 2 THEN "warning"
                 ELSE IF Len(contributors) >= 5 THEN "pass" ELSE "fail",
      description |-> <<Len(contributors), " contributors">>,
      recommendation |->
          IF Len(contributors) < 5 THEN "Encourage more community contributions"
          ELSE Undefined ]

communityEngagementCheck(contributors) ==
    [ name |-> "Community Engagement",
      status |-> IF Len(contributors) >= 5 THEN "pass"
                 ELSE IF Len(contributors) >= 2 THEN "warning" ELSE "fail",
      description |-> <<Len(contributors), " contributors">>,
      recommendation |->
          IF Len(contributors) < 5 THEN "Encourage more community contributions"
          ELSE Undefined ]

documentationCheck(repository) ==
    [ name |-> "Documentation",
      status |-> IF Truthy(repository.description) THEN "pass" ELSE "warning",
      description |-> IF Truthy(repository.description)
                      THEN <<"Repository has a description">>
                      ELSE <<"No repository description">>,
      recommendation |->
          IF ~Truthy(repository.description)
          THEN "Add a clear description to your repository"
          ELSE Undefined ]

releaseManagementCheck(releases) ==
    [ name |-> "Release Management",
      status |-> IF Len(releases) > 0 THEN "pass" ELSE "warning",
      description |-> <<Len(releases), " releases published">>,
      recommendation |->
          IF Len(releases) = 0
          THEN "Consider creating releases to mark important milestones"
          ELSE Undefined ]

healthChecks(repository, readme, license, contributors, releases, daysSinceUpdate) ==
    << readmeCheck(readme),
       licenseCheck(license),
       recentActivityCheck(daysSinceUpdate),
       issueManagementCheck(repository),
       communityEngagementCheck(contributors),
       documentationCheck(repository),
       releaseManagementCheck(releases) >>

\* the score with the quotient truncated instead of rounded
healthScoreOf_truncated(checks) == (CountPass(checks) * 100) \div Len(checks)

\* Math.round((passCount / checks.length) * 100)
healthScoreOf(checks) == MathRoundDiv(CountPass(checks) * 100, Len(checks))

analyzeRepositoryHealth(g, now, failed) ==
    LET repository == getRepository(g, failed)
        readme == getRepositoryReadme(g, failed)
        license == getRepositoryLicense(g, failed)
        contributors == getRepositoryContributors(g, failed)
        releases == getRepositoryReleasesOrEmpty(g, failed)
    IN  IF repository.rejected \/ contributors.rejected
        THEN \* Promise.all rejects with the error of a fetch that has no catch
             [status |-> "rejected",
              rejectedFetches |-> {"repository", "contributors"} \cap failed]
        ELSE LET daysSinceUpdate == daysSinceUpdateOf(now, repository.value.pushed_at)
                 checks == healthChecks(repository.value, readme, license,
                                        contributors.value, releases, daysSinceUpdate)
             IN  [ status |-> "fulfilled",
                   now |-> now,
                   fetched |-> [ repository |-> repository.value,
                                 readme |-> readme,
                                 license |-> license,
                                 contributors |-> contributors.value,
                                 releases |-> releases ],
                   repository |-> repository.value,
                   healthScore |-> healthScoreOf(checks),
                   checks |-> checks,
                   stats |-> [ openIssues |-> repository.value.open_issues_count,
                               contributors |-> Len(contributors.value),
                               releases |-> Len(releases),
                               lastUpdate |-> repository.value.pushed_at ],
                   contributors |-> Slice(contributors.value, 10) ]

(***************************************************************************)
(* The server: POST /api/analyze/repo and isRecentlyActive.                *)
(***************************************************************************)
isRecentlyActive(now, pushedAt) ==
    LET daysDiff == MathFloorDiv(now - pushedAt, TicksPerDay)
    IN  daysDiff <= 30

serverChecks(repository, contributorsList, hasReadme, hasLicense, now) ==
    << [ name |-> "README.md Present",
         status |-> IF hasReadme THEN "pass" ELSE "fail" ],
       [ name |-> "License File",
         status |-> IF hasLicense THEN "pass" ELSE "warning" ],
       [ name |-> "Recent Activity",
         status |-> IF isRecentlyActive(now, repository.pushed_at) THEN "pass" ELSE "warning" ],
       [ name |-> "Issue Management",
         status |-> IF repository.open_issues_count < 50 THEN "pass" ELSE "warning" ],
       [ name |-> "Community Engagement",
         status |-> IF Len(contributorsList) >= 2 THEN "pass" ELSE "warning" ],
       [ name |-> "Documentation",
         status |-> IF Truthy(repository.description) THEN "pass" ELSE "warning" ] >>

analyzeRepoRoute(g, now, failed) ==
    IF "repository" \in failed
    THEN [status |-> "replied", code |-> 404]
    ELSE LET repository == [pushed_at |-> g.pushed_at,
                            open_issues_count |-> g.open_issues_count,
                            description |-> g.description]
             contributorsList ==
                 IF "contributors" \in failed THEN <<>> ELSE ListOf(g.contributors)
             hasReadme == ~("readme" \in failed \/ ~g.readme)
             hasLicense == ~("license" \in failed \/ g.license = Null)
             checks == serverChecks(repository, contributorsList, hasReadme, hasLicense, now)
         IN  [ status |-> "replied",
               code |-> 200,
               now |-> now,
               fetched |-> [ repository |-> repository,
                             contributors |-> contributorsList,
                             hasReadme |-> hasReadme,
                             hasLicense |-> hasLicense ],
               healthScore |-> healthScoreOf(checks),
               repository |-> repository,
               contributors |-> Slice(contributorsList, 10),
               checks |-> checks,
               stats |-> [ openIssues |-> repository.open_issues_count,
                           contributors |-> Len(contributorsList) ] ]

NoRun == [status |-> "idle"]

\* the browser before the application has done anything: the state of a page
\* that has just been mounted with nothing in localStorage
PagesIdle ==
    /\ user = Null
    /\ token = Null
    /\ isLoading = TRUE
    /\ error = Null
    /\ localStorage = [github_token |-> Null, oauth_state |-> Null]
    /\ serviceToken = Null
    /\ location = [code |-> Null, state |-> Null, error |-> Null]
    /\ authPc = "mounted"
    /\ exchangeRequests = 0
    /\ lastResponse = "none"
    /\ pageLoads = 1
    /\ screen = "loading"
    /\ oauthHistory = [validated |-> Null, replayed |-> FALSE]
    /\ repoInput = <<>>
    /\ loading = FALSE
    /\ analysisError = Null
    /\ analysisResult = NoRun
    /\ inFlight = 0
    /\ toast = Null
    /\ graphqlCall = NoRun

(***************************************************************************)
(* Strings as sequences of characters, and the String and RegExp methods   *)
(* the classifier uses.                                                    *)
(***************************************************************************)
UpperAlphabet ==
    << "A", "B", "C", "D", "E", "F", "G", "H", "I", "J", "K", "L", "M", "N", "O", "P", "Q",
       "R", "S", "T", "U", "V", "W", "X", "Y", "Z" >>

LowerAlphabet ==
    << "a", "b", "c", "d", "e", "f", "g", "h", "i", "j", "k", "l", "m", "n", "o", "p", "q",
       "r", "s", "t", "u", "v", "w", "x", "y", "z" >>

Digits ==
    << "0", "1", "2", "3", "4", "5", "6", "7", "8", "9" >>

Range(s) == {s[i] : i \in 1..Len(s)}

\* \s of a regular expression
IsSpace(c) == c \in {" ", "\t", "\n", "\r"}

\* \w of a regular expression
WordChars == Range(UpperAlphabet) \cup Range(LowerAlphabet) \cup Range(Digits) \cup {"_"}

IsWordChar(c) == c \in WordChars

toLowerCaseChar(c) ==
    IF \E i \in 1..Len(UpperAlphabet) : UpperAlphabet[i] = c
    THEN LowerAlphabet[CHOOSE i \in 1..Len(UpperAlphabet) : UpperAlphabet[i] = c]
    ELSE c

\* String.prototype.toLowerCase
toLowerCase(s) == [i \in 1..Len(s) |-> toLowerCaseChar(s[i])]

\* String.prototype.includes
includes(s, sub) ==
    \E i \in 0..(Len(s) - Len(sub)) : SubSeq(s, i + 1, i + Len(sub)) = sub

\* first index >= i of s that holds no white space, Len(s) + 1 if there is none
RECURSIVE SkipSpace(_, _)
SkipSpace(s, i) ==
    IF i > Len(s) THEN i
    ELSE IF IsSpace(s[i]) THEN SkipSpace(s, i + 1) ELSE i

\* s.split(/\s+/): the pieces between the maximal runs of white space; white
\* space at either end leaves an empty piece there, and "" splits into [""]
RECURSIVE SplitFrom(_, _, _)
SplitFrom(s, i, piece) ==
    IF i > Len(s) THEN <<piece>>
    ELSE IF IsSpace(s[i]) THEN <<piece>> \o SplitFrom(s, SkipSpace(s, i), <<>>)
    ELSE SplitFrom(s, i + 1, Append(piece, s[i]))

\* the pieces of the split with the empty ones dropped
splitWhitespace_noEmptyPieces(s) == SelectSeq(SplitFrom(s, 1, <<>>), LAMBDA piece : piece # <<>>)

splitWhitespace(s) == SplitFrom(s, 1, <<>>)

\* \b at the gap before s[i] (i in 1..Len(s)+1)
WordBoundary(s, i) ==
    LET before == i > 1 /\ IsWordChar(s[i - 1])
        after == i <= Len(s) /\ IsWordChar(s[i])
    IN  before # after

\* the alternative w matches at index i between two word boundaries
MatchesAt(s, i, w) ==
    /\ i + Len(w) - 1 <= Len(s)
    /\ SubSeq(s, i, i + Len(w) - 1) = w
    /\ WordBoundary(s, i)
    /\ WordBoundary(s, i + Len(w))

\* s.match(/\b(w1|w2|...)\b/g) || []: the matches from left to right, the
\* alternatives tried in their order, the scan resuming after each match
RECURSIVE MatchFrom(_, _, _)
MatchFrom(s, i, words) ==
    IF i > Len(s) THEN <<>>
    ELSE IF \E k \in 1..Len(words) : MatchesAt(s, i, words[k])
    THEN LET k == CHOOSE k \in 1..Len(words) :
                      /\ MatchesAt(s, i, words[k])
                      /\ \A j \in 1..(k - 1) : ~MatchesAt(s, i, words[j])
         IN  <<words[k]>> \o MatchFrom(s, i + Len(words[k]), words)
    ELSE MatchFrom(s, i + 1, words)

matchWords(s, words) == MatchFrom(s, 1, words)

\* `${title} ${body}`
TitleAndBody(title, body) == title \o <<" ">> \o body

Str_crash == <<"c", "r", "a", "s", "h">>

Str_error == <<"e", "r", "r", "o", "r">>

Str_broken == <<"b", "r", "o", "k", "e", "n">>

Str_slow == <<"s", "l", "o", "w">>

Str_memory == <<"m", "e", "m", "o", "r", "y">>

Str_cpu == <<"c", "p", "u">>

Str_ui == <<"u", "i">>

Str_design == <<"d", "e", "s", "i", "g", "n">>

Str_style == <<"s", "t", "y", "l", "e">>

Str_test == <<"t", "e", "s", "t">>

Str_testing == <<"t", "e", "s", "t", "i", "n", "g">>

Str_bug_report == <<"b", "u", "g", " ", "r", "e", "p", "o", "r", "t">>

Str_feature_request == <<"f", "e", "a", "t", "u", "r", "e", " ", "r", "e", "q", "u", "e", "s", "t">>

(***************************************************************************)
(* AutoLabeler.tsx: the rule table, analyzeIssueContent, calculateConfidence *)
(* and toggleRule.                                                         *)
(***************************************************************************)
InitialLabelingRules ==
    << [id |-> 1, keyword |-> <<"b", "u", "g">>,
        label |-> "bug", active |-> TRUE],
       [id |-> 2, keyword |-> <<"f", "e", "a", "t", "u", "r", "e">>,
        label |-> "enhancement", active |-> TRUE],
       [id |-> 3, keyword |-> <<"d", "o", "c", "u", "m", "e", "n", "t", "a", "t", "i", "o", "n">>,
        label |-> "documentation", active |-> TRUE],
       [id |-> 4, keyword |-> <<"p", "e", "r", "f", "o", "r", "m", "a", "n", "c", "e">>,
        label |-> "performance", active |-> TRUE],
       [id |-> 5, keyword |-> <<"s", "e", "c", "u", "r", "i", "t", "y">>,
        label |-> "security", active |-> TRUE] >>

ClientRelevantWords ==
    << <<"b", "u", "g">>,
       <<"f", "e", "a", "t", "u", "r", "e">>,
       <<"f", "i", "x">>,
       <<"a", "d", "d">>,
       <<"i", "m", "p", "r", "o", "v", "e">>,
       <<"u", "p", "d", "a", "t", "e">>,
       <<"e", "r", "r", "o", "r">>,
       <<"i", "s", "s", "u", "e">>,
       <<"e", "n", "h", "a", "n", "c", "e", "m", "e", "n", "t">>,
       <<"d", "o", "c", "u", "m", "e", "n", "t", "a", "t", "i", "o", "n">> >>

\* labelingRules.forEach(rule => { if (rule.active && ...) suggestedLabels.push(rule.label) })
RECURSIVE RuleLabels(_, _)
RuleLabels(rules, content) ==
    IF rules = <<>> THEN <<>>
    ELSE (IF Head(rules).active /\ includes(content, toLowerCase(Head(rules).keyword))
          THEN <<Head(rules).label>> ELSE <<>>)
         \o RuleLabels(Tail(rules), content)

\* the list that analyzeIssueContent has built before its return statement
suggestedLabelsOf(rules, content) ==
    LET l0 == RuleLabels(rules, content)
        l1 == IF includes(content, Str_crash) \/ includes(content, Str_error)
                    \/ includes(content, Str_broken)
              THEN (IF "bug" \notin Range(l0) THEN Append(l0, "bug") ELSE l0)
              ELSE l0
        l2 == IF includes(content, Str_slow) \/ includes(content, Str_memory)
                    \/ includes(content, Str_cpu)
              THEN (IF "performance" \notin Range(l1) THEN Append(l1, "performance") ELSE l1)
              ELSE l1
        l3 == IF includes(content, Str_ui) \/ includes(content, Str_design)
                    \/ includes(content, Str_style)
              THEN Append(l2, "ui/ux")
              ELSE l2
    IN  IF includes(content, Str_test) \/ includes(content, Str_testing)
        THEN Append(l3, "testing")
        ELSE l3

\* the list returned as built, without the needs-triage default
analyzeIssueContent_noDefault(rules, title, body) ==
    suggestedLabelsOf(rules, toLowerCase(TitleAndBody(title, body)))

analyzeIssueContent(rules, title, body) ==
    LET content == toLowerCase(TitleAndBody(title, body))
        suggestedLabels == suggestedLabelsOf(rules, content)
    IN  IF Len(suggestedLabels) > 0 THEN suggestedLabels ELSE <<"needs-triage">>

\* the bonus added without the upper clamp
calculateConfidence_unclampedBonus(title, body) ==
    LET content == toLowerCase(TitleAndBody(title, body))
        totalWords == Len(splitWhitespace(content))
        relevantWords == matchWords(content, ClientRelevantWords)
        baseConfidence ==
            Min(95, Max(60, MathRoundDiv(Len(relevantWords) * 100 * 10, totalWords)))
    IN  IF includes(content, Str_bug_report) \/ includes(content, Str_feature_request)
        THEN baseConfidence + 15
        ELSE baseConfidence

\* the bonus added to the unclamped value, the clamp applied afterwards
calculateConfidence_bonusBeforeClamp(title, body) ==
    LET content == toLowerCase(TitleAndBody(title, body))
        totalWords == Len(splitWhitespace(content))
        relevantWords == matchWords(content, ClientRelevantWords)
        unclamped == MathRoundDiv(Len(relevantWords) * 100 * 10, totalWords)
    IN  IF includes(content, Str_bug_report) \/ includes(content, Str_feature_request)
        THEN Min(95, Max(60, unclamped + 15))
        ELSE Min(95, Max(60, unclamped))

calculateConfidence(title, body) ==
    LET content == toLowerCase(TitleAndBody(title, body))
        totalWords == Len(splitWhitespace(content))
        relevantWords == matchWords(content, ClientRelevantWords)
        baseConfidence ==
            Min(95, Max(60, MathRoundDiv(Len(relevantWords) * 100 * 10, totalWords)))
    IN  IF includes(content, Str_bug_report) \/ includes(content, Str_feature_request)
        THEN Min(95, baseConfidence + 15)
        ELSE baseConfidence

toggleRuleIn(rules, ruleId) ==
    [i \in 1..Len(rules) |->
        IF rules[i].id = ruleId THEN [rules[i] EXCEPT !.active = ~rules[i].active]
        ELSE rules[i]]

(***************************************************************************)
(* The server: analyzeContentForLabels and calculateConfidence.            *)
(***************************************************************************)
labelRules ==
    << [label |-> "bug",
        keywords |->
            << <<"b", "u", "g">>,
               <<"e", "r", "r", "o", "r">>,
               <<"i", "s", "s", "u", "e">>,
               <<"p", "r", "o", "b", "l", "e", "m">>,
               <<"b", "r", "o", "k", "e", "n">>,
               <<"f", "i", "x">>,
               <<"c", "r", "a", "s", "h">>,
               <<"f", "a", "i", "l">> >>],
       [label |-> "enhancement",
        keywords |->
            << <<"f", "e", "a", "t", "u", "r", "e">>,
               <<"e", "n", "h", "a", "n", "c", "e", "m", "e", "n", "t">>,
               <<"i", "m", "p", "r", "o", "v", "e", "m", "e", "n", "t">>,
               <<"a", "d", "d">>,
               <<"n", "e", "w">>,
               <<"i", "m", "p", "l", "e", "m", "e", "n", "t">> >>],
       [label |-> "documentation",
        keywords |->
            << <<"d", "o", "c", "s">>,
               <<"d", "o", "c", "u", "m", "e", "n", "t", "a", "t", "i", "o", "n">>,
               <<"r", "e", "a", "d", "m", "e">>,
               <<"g", "u", "i", "d", "e">>,
               <<"t", "u", "t", "o", "r", "i", "a", "l">>,
               <<"e", "x", "a", "m", "p", "l", "e">> >>],
       [label |-> "performance",
        keywords |->
            << <<"p", "e", "r", "f", "o", "r", "m", "a", "n", "c", "e">>,
               <<"s", "l", "o", "w">>,
               <<"s", "p", "e", "e", "d">>,
               <<"o", "p", "t", "i", "m", "i", "z", "e">>,
               <<"m", "e", "m", "o", "r", "y">>,
               <<"c", "p", "u">> >>],
       [label |-> "security",
        keywords |->
            << <<"s", "e", "c", "u", "r", "i", "t", "y">>,
               <<"v", "u", "l", "n", "e", "r", "a", "b", "i", "l", "i", "t", "y">>,
               <<"c", "v", "e">>,
               <<"e", "x", "p", "l", "o", "i", "t">>,
               <<"a", "u", "t", "h">>,
               <<"p", "e", "r", "m", "i", "s", "s", "i", "o", "n">> >>],
       [label |-> "ui/ux",
        keywords |->
            << <<"u", "i">>,
               <<"u", "x">>,
               <<"d", "e", "s", "i", "g", "n">>,
               <<"i", "n", "t", "e", "r", "f", "a", "c", "e">>,
               <<"l", "a", "y", "o", "u", "t">>,
               <<"s", "t", "y", "l", "e">>,
               <<"c", "s", "s">> >>],
       [label |-> "api",
        keywords |->
            << <<"a", "p", "i">>,
               <<"e", "n", "d", "p", "o", "i", "n", "t">>,
               <<"r", "e", "s", "t">>,
               <<"g", "r", "a", "p", "h", "q", "l">>,
               <<"r", "e", "q", "u", "e", "s", "t">>,
               <<"r", "e", "s", "p", "o", "n", "s", "e">> >>],
       [label |-> "testing",
        keywords |->
            << <<"t", "e", "s", "t">>,
               <<"t", "e", "s", "t", "i", "n", "g">>,
               <<"s", "p", "e", "c">>,
               <<"u", "n", "i", "t">>,
               <<"i", "n", "t", "e", "g", "r", "a", "t", "i", "o", "n">>,
               <<"e", "2", "e">> >>] >>

ServerRelevantWords ==
    << <<"b", "u", "g">>,
       <<"f", "e", "a", "t", "u", "r", "e">>,
       <<"f", "i", "x">>,
       <<"a", "d", "d">>,
       <<"i", "m", "p", "r", "o", "v", "e">>,
       <<"u", "p", "d", "a", "t", "e">>,
       <<"e", "r", "r", "o", "r">>,
       <<"i", "s", "s", "u", "e">> >>

\* for (const [label, keywords] of Object.entries(labelRules)) ...
RECURSIVE TableLabels(_, _)
TableLabels(table, content) ==
    IF table = <<>> THEN <<>>
    ELSE (IF \E k \in 1..Len(Head(table).keywords) : includes(content, Head(table).keywords[k])
          THEN <<Head(table).label>> ELSE <<>>)
         \o TableLabels(Tail(table), content)

analyzeContentForLabels(title, body) ==
    LET content == toLowerCase(TitleAndBody(title, body))
        labels == TableLabels(labelRules, content)
    IN  IF Len(labels) > 0 THEN labels ELSE <<"needs-triage">>

calculateConfidenceServer(title, body) ==
    LET content == toLowerCase(TitleAndBody(title, body))
        totalWords == Len(splitWhitespace(content))
        relevantWords == matchWords(content, ServerRelevantWords)
    IN  Min(95, Max(60, MathRoundDiv(Len(relevantWords) * 100 * 10, totalWords)))

(***************************************************************************)
(* The issue that GitHub holds, drawn from samples.                        *)
(***************************************************************************)
\* a body that is null in the API's answer
NullBody == <<Null>>

TitleSamples ==
    << <<>>,
       << "A", "d", "d", " ", "d", "a", "r", "k", " ", "m", "o", "d", "e", " ", "s", "u", "p",
          "p", "o", "r", "t" >>,
       << "B", "u", "g", " ", "r", "e", "p", "o", "r", "t", ":", " ", "l", "o", "g", "i", "n",
          " ", "e", "r", "r", "o", "r" >>,
       << "T", "y", "p", "o" >>,
       << "f", "i", "x", " ", "b", "u", "g" >>,
       << " ", " ", "S", "l", "o", "w", "\t", "U", "I", " ", " ", "t", "e", "s", "t", " " >> >>

BodySamples ==
    << NullBody,
       << "f", "e", "a", "t", "u", "r", "e", " ", "r", "e", "q", "u", "e", "s", "t" >>,
       << "t", "h", "e", " ", "p", "a", "g", "e", " ", "l", "o", "a", "d", "s", " ", "a", "n",
          "d", " ", "t", "h", "e", "n", " ", "t", "h", "e", " ", "u", "p", "d", "a", "t", "e",
          " ", "b", "u", "t", "t", "o", "n", " ", "d", "o", "e", "s", " ", "n", "o", "t", "h",
          "i", "n", "g", " ", "a", "t", " ", "a", "l", "l", " ", "f", "o", "r", " ", "m", "e" >>,
       << "f", "e", "a", "t", "u", "r", "e", " ", "r", "e", "q", "u", "e", "s", "t", ":", " ",
          "l", "e", "t", " ", "m", "e", " ", "s", "e", "t", " ", "i", "t", " ", "t", "o", " ",
          "b", "e", " ", "o", "n", " ", "o", "r", " ", "o", "f", "f", " ", "a", "s", " ", "i",
          " ", "g", "o", " ", "i", "n", " ", "o", "r", " ", "o", "u", "t" >>,
       <<>> >>

Titles == {TitleSamples[i] : i \in 1..Min(MaxTitles, Len(TitleSamples))}

Bodies == {BodySamples[i] : i \in 1..Min(MaxBodies, Len(BodySamples))}

\* issue.body || ''
BodyOrEmpty(body) == IF body = NullBody THEN <<>> ELSE body

(***************************************************************************)
(* State machine of the classifier.                                        *)
(***************************************************************************)
LabelInit ==
    /\ issue \in [title : Titles, body : Bodies]
    /\ labelingRules = InitialLabelingRules
    /\ recentActivity = <<>>
    /\ webhookReply = NoRun
    /\ webhookSecret = Undefined
    /\ webhookHits = 0
    /\ webhookExchange = NoRun
    /\ PagesIdle
    /\ github = CHOOSE g \in Repositories : TRUE
    /\ clock = ClockStart
    /\ clientRun = NoRun
    /\ serverRun = NoRun

\* toggleRule(ruleId), from the switch of a rule
toggleRule(ruleId) ==
    /\ labelingRules' = toggleRuleIn(labelingRules, ruleId)
    /\ UNCHANGED <<issue, recentActivity, webhookReply>>

analyzedIssue(rules, i) ==
    [ title |-> i.title,
      suggestedLabels |-> analyzeIssueContent(rules, i.title, BodyOrEmpty(i.body)),
      confidence |-> calculateConfidence(i.title, BodyOrEmpty(i.body)) ]

\* analyzeRepositoryIssues, with a repository selected and a token: the issues
\* are fetched, each is analysed, and the list replaces recentActivity; a
\* rejected fetch leaves recentActivity as it was
analyzeRepositoryIssues ==
    /\ \E fetched \in {"rejected", "empty", "issue"} :
           recentActivity' =
               CASE fetched = "rejected" -> recentActivity
                 [] fetched = "empty" -> <<>>
                 [] fetched = "issue" -> <<analyzedIssue(labelingRules, issue)>>
    /\ UNCHANGED <<issue, labelingRules, webhookReply>>

\* the webhook handler's labelling of an opened issue or pull request
webhookLabel ==
    /\ webhookReply' =
           LET labels == analyzeContentForLabels(issue.title, BodyOrEmpty(issue.body))
           IN  IF Len(labels) > 0
               THEN [ status |-> "labelled",
                      labels_applied |-> labels,
                      confidence |-> calculateConfidenceServer(issue.title, BodyOrEmpty(issue.body)) ]
               ELSE [ status |-> "no labels" ]
    /\ UNCHANGED <<issue, labelingRules, recentActivity>>

LabelNext ==
    \/ (\E ruleId \in 1..5 : toggleRule(ruleId)) /\ UNCHANGED <<healthVars, hookVars, pageVars>>
    \/ analyzeRepositoryIssues /\ UNCHANGED <<healthVars, hookVars, pageVars>>
    \/ webhookLabel /\ UNCHANGED <<healthVars, hookVars, pageVars>>

LabelSpec == LabelInit /\ [][LabelNext]_vars

(***************************************************************************)
(* State machine of the health analysis.                                   *)
(***************************************************************************)
Init ==
    /\ github \in Repositories
    /\ clock = ClockStart
    /\ clientRun = NoRun
    /\ serverRun = NoRun
    /\ issue = [title |-> TitleSamples[1], body |-> BodySamples[1]]
    /\ labelingRules = InitialLabelingRules
    /\ recentActivity = <<>>
    /\ webhookReply = NoRun
    /\ webhookSecret = Undefined
    /\ webhookHits = 0
    /\ webhookExchange = NoRun
    /\ PagesIdle

\* githubService.analyzeRepositoryHealth(owner, repo)
ClientAnalyze ==
    /\ \E failed \in SUBSET ClientEndpoints :
           clientRun' = analyzeRepositoryHealth(github, clock, failed)
    /\ UNCHANGED <<github, clock, serverRun>>
    /\ UNCHANGED <<labelVars, hookVars, pageVars>>

\* POST /api/analyze/repo with a well-formed repo and a token
ServerAnalyze ==
    /\ \E failed \in SUBSET ServerEndpoints :
           serverRun' = analyzeRepoRoute(github, clock, failed)
    /\ UNCHANGED <<github, clock, clientRun>>
    /\ UNCHANGED <<labelVars, hookVars, pageVars>>

Next == ClientAnalyze \/ ServerAnalyze

Spec == Init /\ [][Next]_vars

(***************************************************************************)
(* The webhook route of the server: POST /api/webhook/github, behind the   *)
(* limiter of /api, webhookLimiter and verifyGitHubSignature.              *)
(***************************************************************************)
\* max of webhookLimiter: the requests of one window that are let through
WebhookLimiterMax == 30

\* the issue or pull request of a payload; 0 stands for a payload without one
WebhookItemSamples ==
    << [title |-> TitleSamples[3], body |-> NullBody],
       [title |-> TitleSamples[4], body |-> BodySamples[3]],
       [title |-> TitleSamples[1], body |-> NullBody] >>

WebhookItems == 1..Min(MaxItems, Len(WebhookItemSamples))

\* req.body as express.json() parsed it: a payload has an issue, a pull request
\* or neither
WebhookBodies ==
    { b \in [action : {"opened", "closed"},
             issue : WebhookItems \cup {0},
             pull_request : WebhookItems \cup {0}] :
          b.issue = 0 \/ b.pull_request = 0 }

\* JSON.stringify(req.body)
JSONstringify(body) == <<"JSON.stringify", body>>

\* bytes other than JSON.stringify(req.body), such as the body as it was sent
\* with other spacing
OtherPayload(body) == <<"other", body>>

\* 'sha256=' + createHmac('sha256', secret).update(payload).digest('hex'): 7 and
\* 64 characters, distinct for distinct keys and payloads
hmacSignature(secret, payload) == [length |-> 71, key |-> secret, payload |-> payload]

\* req.get('X-Hub-Signature-256') of a request without the header
NoSignature == [length |-> 0, key |-> "", payload |-> <<>>]

\* a header such as 'sha256=abc'
ShortSignature == [length |-> 10, key |-> "", payload |-> <<>>]

\* process.env.WEBHOOK_SECRET when it is set, and a key it is not
ConfiguredSecret == "secret"

WebhookKeys == {ConfiguredSecret, "guess"}

SignaturesFor(body) ==
    {NoSignature, ShortSignature}
        \cup {hmacSignature(k, JSONstringify(body)) : k \in WebhookKeys}
        \cup {hmacSignature(ConfiguredSecret, OtherPayload(body))}

WebhookEvents == {"issues", "pull_request", "push"}

WebhookRequests ==
    UNION { [signature : SignaturesFor(b), event : WebhookEvents, body : {b}] :
                b \in WebhookBodies }

\* res.json(...) and res.status(code).json(...): the status, the fields of the
\* JSON object and the text of its message or error
Reply(code, fields, text) ==
    [status |-> code, fields |-> fields, text |-> text,
     labels_applied |-> <<>>, confidence |-> 0]

\* what a middleware does with a request: it calls next(), sends a response
\* or throws
CallsNext == [kind |-> "next", reply |-> Reply(0, {}, "")]

Sends(reply) == [kind |-> "sent", reply |-> reply]

Throws(name) == [kind |-> "thrown", reply |-> Reply(0, {}, name)]

\* crypto.timingSafeEqual(Buffer.from(a), Buffer.from(b)) throws a RangeError
\* for buffers of different byte lengths and compares the bytes otherwise
timingSafeEqualThrows(a, b) == a.length # b.length

timingSafeEqual(a, b) == a = b

\* the comparison of the signatures left out
verifyGitHubSignature_noComparison(req, secret) ==
    IF req.signature.length = 0 \/ ~Truthy(secret)
    THEN Sends(Reply(401, {"error"}, "Unauthorized: Missing signature or secret"))
    ELSE CallsNext

verifyGitHubSignature(req, secret) ==
    IF req.signature.length = 0 \/ ~Truthy(secret)
    THEN Sends(Reply(401, {"error"}, "Unauthorized: Missing signature or secret"))
    ELSE LET expectedSignature == hmacSignature(secret, JSONstringify(req.body))
         IN  IF timingSafeEqualThrows(req.signature, expectedSignature)
             THEN Throws("RangeError")
             ELSE IF ~timingSafeEqual(req.signature, expectedSignature)
                  THEN Sends(Reply(401, {"error"}, "Unauthorized: Invalid signature"))
                  ELSE CallsNext

\* `Event ${eventType}:${action} processed but no action taken`
NoActionMessage(eventType, action) ==
    "Event " \o eventType \o ":" \o action \o " processed but no action taken"

\* the labels and the confidence of the sampled items, as the handler computes them
webhookItemLabels ==
    [k \in 1..Len(WebhookItemSamples) |->
        analyzeContentForLabels(WebhookItemSamples[k].title,
                                BodyOrEmpty(WebhookItemSamples[k].body))]

webhookItemConfidence ==
    [k \in 1..Len(WebhookItemSamples) |->
        calculateConfidenceServer(WebhookItemSamples[k].title,
                                  BodyOrEmpty(WebhookItemSamples[k].body))]

\* every event is taken for an opened issue
webhookHandler_noEventFilter(req) ==
    LET item == IF req.body.issue # 0 THEN req.body.issue ELSE req.body.pull_request
    IN  IF item = 0
        THEN Reply(500, {"error", "details"}, "Webhook processing failed")
        ELSE [Reply(200, {"success", "labels_applied", "confidence", "item_url"}, "")
                 EXCEPT !.labels_applied = webhookItemLabels[item],
                        !.confidence = webhookItemConfidence[item]]

\* the handler of the route: the response it sends
webhookHandler(req) ==
    LET action == req.body.action
        eventType == req.event
    IN  IF (eventType = "issues" \/ eventType = "pull_request") /\ action = "opened"
        THEN LET item == IF req.body.issue # 0 THEN req.body.issue
                         ELSE req.body.pull_request
             IN  IF item = 0
                 THEN \* item.title of undefined: a TypeError, caught by the handler
                      Reply(500, {"error", "details"}, "Webhook processing failed")
                 ELSE LET labels == webhookItemLabels[item]
                      IN  IF Len(labels) > 0
                          THEN [Reply(200, {"success", "labels_applied", "confidence",
                                            "item_url"}, "")
                                   EXCEPT !.labels_applied = labels,
                                          !.confidence = webhookItemConfidence[item]]
                          ELSE Reply(200, {"success", "message"},
                                     "No labels applied - content did not match any rules")
        ELSE Reply(200, {"success", "message"}, NoActionMessage(eventType, action))

\* app.use('/api', limiter), then webhookLimiter, verifyGitHubSignature and the
\* handler, then the error middleware: the stages a request runs through and
\* the response it gets; hits counts the requests of the window, this one included
webhookRoute(req, secret, apiLimited, hits) ==
    IF apiLimited
    THEN [stages |-> <<"limiter">>,
          response |-> Reply(429, {"error", "retryAfter"},
                             "Too many requests from this IP, please try again later.")]
    ELSE IF hits > WebhookLimiterMax
    THEN [stages |-> <<"limiter", "webhookLimiter">>,
          response |-> Reply(429, {"error"},
                             "Too many webhook requests, please try again later.")]
    ELSE LET verified == verifyGitHubSignature(req, secret)
         IN  CASE verified.kind = "sent" ->
                     [stages |-> <<"limiter", "webhookLimiter", "verifyGitHubSignature">>,
                      response |-> verified.reply]
               [] verified.kind = "thrown" ->
                     [stages |-> <<"limiter", "webhookLimiter", "verifyGitHubSignature",
                                   "error middleware">>,
                      response |-> Reply(500, {"error", "message", "timestamp"},
                                         "Internal server error")]
               [] verified.kind = "next" ->
                     [stages |-> <<"limiter", "webhookLimiter", "verifyGitHubSignature",
                                   "handler">>,
                      response |-> webhookHandler(req)]

(***************************************************************************)
(* State machine of the webhook route.                                     *)
(***************************************************************************)
WebhookInit ==
    /\ webhookSecret \in {Undefined, ConfiguredSecret}
    /\ webhookHits = 0
    /\ webhookExchange = NoRun
    /\ PagesIdle
    /\ issue = [title |-> TitleSamples[1], body |-> BodySamples[1]]
    /\ labelingRules = InitialLabelingRules
    /\ recentActivity = <<>>
    /\ webhookReply = NoRun
    /\ github = CHOOSE g \in Repositories : TRUE
    /\ clock = ClockStart
    /\ clientRun = NoRun
    /\ serverRun = NoRun

\* POST /api/webhook/github
webhookGithub ==
    \E req \in WebhookRequests, apiLimited \in BOOLEAN :
        LET hits == IF apiLimited THEN webhookHits
                    ELSE Min(webhookHits + 1, WebhookLimiterMax + 1)
            served == webhookRoute(req, webhookSecret, apiLimited, hits)
        IN  /\ webhookHits' = hits
            /\ webhookExchange' =
                   [status |-> "replied", request |-> req, stages |-> served.stages,
                    response |-> served.response]
            /\ UNCHANGED webhookSecret

\* windowMs of webhookLimiter has passed: the count of the window starts anew
webhookWindowExpires ==
    /\ webhookHits > 0
    /\ webhookHits' = 0
    /\ UNCHANGED <<webhookSecret, webhookExchange>>

WebhookNext ==
    \/ webhookGithub /\ UNCHANGED <<healthVars, labelVars, pageVars>>
    \/ webhookWindowExpires /\ UNCHANGED <<healthVars, labelVars, pageVars>>

WebhookSpec == WebhookInit /\ [][WebhookNext]_vars

(***************************************************************************)
(* AuthContext.tsx and ProtectedRoute.tsx: the authentication of the       *)
(* browser application.  The page is loaded, initializeAuth runs as the    *)
(* effect of AuthProvider, and the network answers its requests.           *)
(***************************************************************************)
\* the values Math.random().toString(36) gives login() for the state parameter
OAuthStates == {"s1", "s2"}

\* the access tokens the token exchange hands out
AccessTokens == {"gho_1", "gho_2"}

\* the user of GET /user
GitHubUser == "octocat"

\* window.location.search without parameters
NoParams == [code |-> Null, state |-> Null, error |-> Null]

\* the query parameters a page load may carry
Locations ==
    [code : {Null, "code"}, state : {Null} \cup OAuthStates, error : {Null, "access_denied"}]

\* the page was loaded with the parameters of an OAuth callback
IsCallback(params) ==
    ~Truthy(params.error) /\ Truthy(params.code) /\ Truthy(params.state)

\* what ProtectedRoute renders
ProtectedRoute_noLoginGate(u, busy) == IF busy THEN "loading" ELSE "pages"

ProtectedRoute(u, busy) ==
    IF busy THEN "loading"
    ELSE IF ~Truthy(u) THEN "login"
    ELSE "pages"

\* the state of AuthProvider, of localStorage and of githubService
AuthState ==
    [user |-> user, token |-> token, isLoading |-> isLoading, error |-> error,
     localStorage |-> localStorage, serviceToken |-> serviceToken,
     location |-> location, authPc |-> authPc, exchangeRequests |-> exchangeRequests]

\* the state after a step, rendered by ProtectedRoute
Becomes(st) ==
    /\ user' = st.user
    /\ token' = st.token
    /\ isLoading' = st.isLoading
    /\ error' = st.error
    /\ localStorage' = st.localStorage
    /\ serviceToken' = st.serviceToken
    /\ location' = st.location
    /\ authPc' = st.authPc
    /\ exchangeRequests' = st.exchangeRequests
    /\ screen' = ProtectedRoute(st.user, st.isLoading)

\* handleOAuthCallback up to its first await, the comparison of the states left out
handleOAuthCallback_noStateCheck(st, code, state) ==
    [st EXCEPT !.isLoading = TRUE, !.error = Null,
               !.localStorage.oauth_state = Null,
               !.exchangeRequests = st.exchangeRequests + 1,
               !.authPc = "exchange"]

\* handleOAuthCallback up to its first await, oauth_state left in localStorage
handleOAuthCallback_stateKept(st, code, state) ==
    LET savedState == st.localStorage.oauth_state
    IN  IF state # savedState
        THEN [st EXCEPT !.error = "Invalid OAuth state parameter",
                        !.location = NoParams,
                        !.isLoading = FALSE,
                        !.authPc = "idle"]
        ELSE [st EXCEPT !.isLoading = TRUE, !.error = Null,
                        !.exchangeRequests = st.exchangeRequests + 1,
                        !.authPc = "exchange"]

\* handleOAuthCallback up to its first await: the check of the state
\* parameter, then the request to /.netlify/functions/github-auth
handleOAuthCallback(st, code, state) ==
    LET savedState == st.localStorage.oauth_state
    IN  IF state # savedState
        THEN \* throw, catch, finally
             [st EXCEPT !.error = "Invalid OAuth state parameter",
                        !.location = NoParams,
                        !.isLoading = FALSE,
                        !.authPc = "idle"]
        ELSE [st EXCEPT !.isLoading = TRUE, !.error = Null,
                        !.localStorage.oauth_state = Null,
                        !.exchangeRequests = st.exchangeRequests + 1,
                        !.authPc = "exchange"]

\* initializeAuth with the finally block left out on the path of the OAuth error
initializeAuthStart_noFinally(st) ==
    IF Truthy(st.location.error)
    THEN [st EXCEPT !.error = "OAuth error: " \o st.location.error, !.authPc = "idle"]
    ELSE IF Truthy(st.location.code) /\ Truthy(st.location.state)
    THEN handleOAuthCallback(st, st.location.code, st.location.state)
    ELSE LET savedToken == st.localStorage.github_token
         IN  IF Truthy(savedToken)
             THEN [st EXCEPT !.error = Null, !.token = savedToken,
                             !.serviceToken = savedToken, !.authPc = "savedUser"]
             ELSE [st EXCEPT !.error = Null, !.isLoading = FALSE, !.authPc = "idle"]

\* initializeAuth up to its first await
initializeAuthStart(st) ==
    IF Truthy(st.location.error)
    THEN [st EXCEPT !.error = "OAuth error: " \o st.location.error,
                    !.isLoading = FALSE,
                    !.authPc = "idle"]
    ELSE IF Truthy(st.location.code) /\ Truthy(st.location.state)
    THEN handleOAuthCallback(st, st.location.code, st.location.state)
    ELSE LET savedToken == st.localStorage.github_token
         IN  IF Truthy(savedToken)
             THEN [st EXCEPT !.error = Null, !.token = savedToken,
                             !.serviceToken = savedToken, !.authPc = "savedUser"]
             ELSE [st EXCEPT !.error = Null, !.isLoading = FALSE, !.authPc = "idle"]

\* the answers of /.netlify/functions/github-auth; a fetch that fails rejects
ExchangeResponses ==
    [settled : {"rejected"}, ok : {FALSE}, error : {Null}, access_token : {Null}]
        \cup [settled : {"fulfilled"}, ok : {FALSE},
              error : {Null, "bad_verification_code"}, access_token : {Null}]
        \cup [settled : {"fulfilled"}, ok : {TRUE}, error : {Null},
              access_token : AccessTokens \cup {Null}]

\* the outcomes of githubService.getCurrentUser()
UserResponses ==
    { [ok |-> TRUE, message |-> Null],
      [ok |-> FALSE, message |-> "GitHub authentication failed. Please sign in again."],
      [ok |-> FALSE, message |-> "Network Error"] }

\* the catch and finally blocks of handleOAuthCallback
callbackFailed(st, message) ==
    [st EXCEPT !.error = IF Truthy(message) THEN message
                         ELSE "Authentication failed. Please try again.",
               !.location = NoParams,
               !.isLoading = FALSE,
               !.authPc = "idle"]

\* handleOAuthCallback from the answer of the token exchange to the next await
exchangeSettled(st, response) ==
    IF response.settled = "rejected" THEN callbackFailed(st, "Failed to fetch")
    ELSE IF ~response.ok
    THEN callbackFailed(st, IF Truthy(response.error) THEN response.error
                            ELSE "Failed to exchange OAuth code")
    ELSE IF ~Truthy(response.access_token)
    THEN callbackFailed(st, "No access token received")
    ELSE [st EXCEPT !.token = response.access_token,
                    !.localStorage.github_token = response.access_token,
                    !.serviceToken = response.access_token,
                    !.authPc = "callbackUser"]

\* handleOAuthCallback from the answer of getCurrentUser to its end
callbackUserSettled(st, response) ==
    IF response.ok
    THEN [st EXCEPT !.user = GitHubUser,
                    !.location = NoParams,
                    !.isLoading = FALSE,
                    !.authPc = "idle"]
    ELSE callbackFailed(st, response.message)

\* the saved token left in localStorage when getCurrentUser fails
savedUserSettled_tokenKept(st, response) ==
    IF response.ok
    THEN [st EXCEPT !.user = GitHubUser, !.isLoading = FALSE, !.authPc = "idle"]
    ELSE [st EXCEPT !.token = Null,
                    !.serviceToken = Null,
                    !.error = "Authentication expired. Please sign in again.",
                    !.isLoading = FALSE,
                    !.authPc = "idle"]

\* initializeAuth from the answer of getCurrentUser to its end
savedUserSettled(st, response) ==
    IF response.ok
    THEN [st EXCEPT !.user = GitHubUser, !.isLoading = FALSE, !.authPc = "idle"]
    ELSE [st EXCEPT !.localStorage.github_token = Null,
                    !.token = Null,
                    !.serviceToken = Null,
                    !.error = "Authentication expired. Please sign in again.",
                    !.isLoading = FALSE,
                    !.authPc = "idle"]

\* login(): the state is saved and the browser leaves for GitHub
loggingIn(st, state) ==
    [st EXCEPT !.localStorage.oauth_state = state, !.authPc = "redirected"]

\* logout(): everything is cleared and the browser leaves for '/'
loggedOut(st) ==
    [st EXCEPT !.user = Null, !.token = Null, !.error = Null,
               !.localStorage = [github_token |-> Null, oauth_state |-> Null],
               !.serviceToken = Null,
               !.authPc = "loggedOut"]

(***************************************************************************)
(* State machine of the authentication.                                    *)
(***************************************************************************)
AuthInit ==
    /\ PagesIdle
    /\ github = CHOOSE g \in Repositories : TRUE
    /\ clock = ClockStart
    /\ clientRun = NoRun
    /\ serverRun = NoRun
    /\ issue = [title |-> TitleSamples[1], body |-> BodySamples[1]]
    /\ labelingRules = InitialLabelingRules
    /\ recentActivity = <<>>
    /\ webhookReply = NoRun
    /\ webhookSecret = Undefined
    /\ webhookHits = 0
    /\ webhookExchange = NoRun

AuthRest == UNCHANGED <<healthVars, labelVars, hookVars, analyzerVars, graphqlCall>>

\* oauthHistory is a history variable: the state parameter of the callback that
\* last passed the check of handleOAuthCallback, until login() is called again,
\* and whether a later callback has carried that value since

\* the browser loads the application: AuthProvider is mounted with its initial
\* state, githubService is a new object, localStorage is as it was left
pageLoad ==
    /\ pageLoads < MaxPageLoads
    /\ \E params \in Locations :
           Becomes([user |-> Null, token |-> Null, isLoading |-> TRUE, error |-> Null,
                    localStorage |-> localStorage, serviceToken |-> Null,
                    location |-> params, authPc |-> "mounted",
                    exchangeRequests |-> 0])
    /\ lastResponse' = "none"
    /\ pageLoads' = pageLoads + 1
    /\ UNCHANGED oauthHistory

\* useEffect(() => { initializeAuth() }, [])
initializeAuth ==
    /\ authPc = "mounted"
    /\ Becomes(initializeAuthStart(AuthState))
    /\ oauthHistory' =
           IF ~IsCallback(location) THEN oauthHistory
           ELSE IF authPc' = "exchange"
           THEN [validated |-> location.state, replayed |-> FALSE]
           ELSE IF location.state = oauthHistory.validated
           THEN [oauthHistory EXCEPT !.replayed = TRUE]
           ELSE oauthHistory
    /\ UNCHANGED <<lastResponse, pageLoads>>

\* the token exchange answers
exchangeSettles ==
    /\ authPc = "exchange"
    /\ \E response \in ExchangeResponses :
           /\ Becomes(exchangeSettled(AuthState, response))
           /\ lastResponse' = IF response.settled = "fulfilled" /\ response.ok
                                 /\ Truthy(response.access_token)
                              THEN "exchange fulfilled" ELSE "exchange failed"
    /\ UNCHANGED <<pageLoads, oauthHistory>>

\* GitHub answers the getCurrentUser of handleOAuthCallback or of initializeAuth
getCurrentUserSettles ==
    /\ authPc \in {"callbackUser", "savedUser"}
    /\ \E response \in UserResponses :
           /\ Becomes(IF authPc = "callbackUser" THEN callbackUserSettled(AuthState, response)
                      ELSE savedUserSettled(AuthState, response))
           /\ lastResponse' = IF response.ok THEN "getCurrentUser fulfilled"
                              ELSE "getCurrentUser rejected"
    /\ UNCHANGED <<pageLoads, oauthHistory>>

\* the button of LoginPage
login ==
    /\ authPc = "idle"
    /\ screen = "login"
    /\ \E state \in OAuthStates : Becomes(loggingIn(AuthState, state))
    /\ oauthHistory' = [validated |-> Null, replayed |-> FALSE]
    /\ UNCHANGED <<lastResponse, pageLoads>>

\* the button of Header, inside Layout
logout ==
    /\ authPc = "idle"
    /\ screen = "pages"
    /\ Becomes(loggedOut(AuthState))
    /\ UNCHANGED <<lastResponse, pageLoads, oauthHistory>>

AuthNext ==
    \/ pageLoad /\ AuthRest
    \/ initializeAuth /\ AuthRest
    \/ exchangeSettles /\ AuthRest
    \/ getCurrentUserSettles /\ AuthRest
    \/ login /\ AuthRest
    \/ logout /\ AuthRest

AuthSpec == AuthInit /\ [][AuthNext]_vars

\* every request is answered and the effect of AuthProvider runs
AuthFairSpec ==
    /\ AuthSpec
    /\ WF_vars(initializeAuth /\ AuthRest)
    /\ WF_vars(exchangeSettles /\ AuthRest)
    /\ WF_vars(getCurrentUserSettles /\ AuthRest)

(***************************************************************************)
(* RepoAnalyzer: handleAnalyze and the analysis it awaits.                 *)
(***************************************************************************)
\* what the user may type into the input of the page
RepoInputSamples ==
    { <<>>,
      << " ", " " >>,
      << "o" >>,
      << "o", "/", "r" >>,
      << "/", "r" >>,
      << "o", "/" >>,
      << " ", "o", "/", "r", "/", "x" >> }

\* String.prototype.trim
trim(s) ==
    LET kept == {i \in 1..Len(s) : ~IsSpace(s[i])}
    IN  IF kept = {} THEN <<>>
        ELSE SubSeq(s, CHOOSE i \in kept : \A j \in kept : i <= j,
                       CHOOSE i \in kept : \A j \in kept : j <= i)

\* String.prototype.split(separator) for a separator of one character
RECURSIVE splitOn(_, _, _, _)
splitOn(s, separator, from, pieces) ==
    LET ends == {i \in from..Len(s) : s[i] = separator}
    IN  IF ends = {} THEN Append(pieces, SubSeq(s, from, Len(s)))
        ELSE LET next == CHOOSE i \in ends : \A j \in ends : i <= j
             IN  splitOn(s, separator, next + 1, Append(pieces, SubSeq(s, from, next - 1)))

split(s, separator) == splitOn(s, separator, 1, <<>>)

\* the state of the page, with the token of useAuth()
AnalyzerState ==
    [repoInput |-> repoInput, token |-> token, loading |-> loading,
     analysisError |-> analysisError, analysisResult |-> analysisResult,
     inFlight |-> inFlight, toast |-> toast]

\* handleAnalyze up to its await: the three checks of the input, then the call
\* of githubService.analyzeRepositoryHealth
handleAnalyze(st) ==
    IF trim(st.repoInput) = <<>>
    THEN [st EXCEPT !.toast = "Please enter a repository name"]
    ELSE IF ~Truthy(st.token)
    THEN [st EXCEPT !.toast = "Please authenticate with GitHub first"]
    ELSE LET pieces == split(st.repoInput, "/")
             owner == pieces[1]
         IN  IF owner = <<>> \/ Len(pieces) < 2 \/ pieces[2] = <<>>
             THEN [st EXCEPT !.toast = "Please use the format: owner/repository"]
             ELSE [st EXCEPT !.loading = TRUE, !.analysisError = Null,
                             !.inFlight = st.inFlight + 1]

\* error.message of a rejected analysis
analysisErrorMessage(result) ==
    IF "repository" \in result.rejectedFetches
    THEN "Repository not found or access denied."
    ELSE "GitHub API rate limit exceeded or access forbidden."

\* the finally block run only after a success
analysisSettled_noFinally(st, result) ==
    IF result.status = "fulfilled"
    THEN [st EXCEPT !.analysisResult = result,
                    !.toast = "Repository health analyzed successfully!",
                    !.loading = FALSE,
                    !.inFlight = st.inFlight - 1]
    ELSE [st EXCEPT !.analysisError = analysisErrorMessage(result),
                    !.toast = analysisErrorMessage(result),
                    !.inFlight = st.inFlight - 1]

\* handleAnalyze from the end of the analysis: try, catch and finally
analysisSettled(st, result) ==
    IF result.status = "fulfilled"
    THEN [st EXCEPT !.analysisResult = result,
                    !.toast = "Repository health analyzed successfully!",
                    !.loading = FALSE,
                    !.inFlight = st.inFlight - 1]
    ELSE [st EXCEPT !.analysisError = analysisErrorMessage(result),
                    !.toast = analysisErrorMessage(result),
                    !.loading = FALSE,
                    !.inFlight = st.inFlight - 1]

\* the server, the classifier and the webhook route at rest
BackgroundIdle ==
    /\ github = CHOOSE g \in Repositories : TRUE
    /\ clock = ClockStart
    /\ clientRun = NoRun
    /\ serverRun = NoRun
    /\ issue = [title |-> TitleSamples[1], body |-> BodySamples[1]]
    /\ labelingRules = InitialLabelingRules
    /\ recentActivity = <<>>
    /\ webhookReply = NoRun
    /\ webhookSecret = Undefined
    /\ webhookHits = 0
    /\ webhookExchange = NoRun

\* the authentication has settled with a user: the pages are rendered
SignedIn ==
    /\ user = GitHubUser
    /\ token \in AccessTokens
    /\ serviceToken = token
    /\ localStorage = [github_token |-> token, oauth_state |-> Null]
    /\ isLoading = FALSE
    /\ error = Null
    /\ location = NoParams
    /\ authPc = "idle"
    /\ exchangeRequests = 0
    /\ lastResponse = "getCurrentUser fulfilled"
    /\ pageLoads = 1
    /\ screen = "pages"
    /\ oauthHistory = [validated |-> Null, replayed |-> FALSE]

AnalyzerInit ==
    /\ BackgroundIdle
    /\ SignedIn
    /\ repoInput = <<>>
    /\ loading = FALSE
    /\ analysisError = Null
    /\ analysisResult = NoRun
    /\ inFlight = 0
    /\ toast = Null
    /\ graphqlCall = NoRun

AnalyzerBecomes(st) ==
    /\ repoInput' = st.repoInput
    /\ loading' = st.loading
    /\ analysisError' = st.analysisError
    /\ analysisResult' = st.analysisResult
    /\ inFlight' = st.inFlight
    /\ toast' = st.toast

AnalyzerRest == UNCHANGED <<healthVars, labelVars, hookVars, authVars, graphqlCall>>

\* onChange of the input, which is disabled while loading
setRepoInput ==
    /\ ~loading
    /\ \E value \in RepoInputSamples : repoInput' = value
    /\ UNCHANGED <<loading, analysisError, analysisResult, inFlight, toast>>

\* the button or the Enter key
handleAnalyzeCalled ==
    /\ inFlight < MaxInFlight
    /\ AnalyzerBecomes(handleAnalyze(AnalyzerState))

\* githubService.analyzeRepositoryHealth(owner, repo) settles
analysisSettles ==
    /\ inFlight > 0
    /\ \E failed \in SUBSET ClientEndpoints :
           AnalyzerBecomes(analysisSettled(AnalyzerState,
                                           analyzeRepositoryHealth(github, clock, failed)))

AnalyzerNext ==
    \/ setRepoInput /\ AnalyzerRest
    \/ handleAnalyzeCalled /\ AnalyzerRest
    \/ analysisSettles /\ AnalyzerRest

AnalyzerSpec == AnalyzerInit /\ [][AnalyzerNext]_vars

\* every analysis settles: each request of githubService has a timeout
AnalyzerFairSpec == AnalyzerSpec /\ WF_vars(analysisSettles /\ AnalyzerRest)

(***************************************************************************)
(* GitHubService.graphqlRequest, called by getContributionCalendar and by  *)
(* getRepositoryInsights.                                                  *)
(***************************************************************************)
\* the longest errors array of a GraphQL answer
MaxErrors == 3

\* messages GitHub puts in the entries of an errors array
GraphqlErrorMessages ==
    {"Could not resolve to a User with the login of 'nobody'.",
     "Field 'weeks' doesn't exist on type 'ContributionCalendar'",
     "API rate limit exceeded"}

GraphqlCallers == {"getContributionCalendar", "getRepositoryInsights"}

ErrorArrays ==
    UNION {[1..n -> {[message |-> m] : m \in GraphqlErrorMessages}] : n \in 0..MaxErrors}

\* what axios.post can come back with: a 2xx answer with data or with an
\* errors array, an answer with an error status, or no answer within 15 s
GraphqlResponses ==
    {[kind |-> "ok", hasErrors |-> FALSE, errors |-> <<>>, bodyMessage |-> Null]}
    \cup {[kind |-> "ok", hasErrors |-> TRUE, errors |-> e, bodyMessage |-> Null] :
             e \in ErrorArrays}
    \cup {[kind |-> k, hasErrors |-> FALSE, errors |-> <<>>, bodyMessage |-> m] :
             k \in {"status 401", "status 403"}, m \in {Null, "Bad credentials"}}
    \cup {[kind |-> "no response", hasErrors |-> FALSE, errors |-> <<>>,
           bodyMessage |-> Null]}

Returns(value) == [kind |-> "return", value |-> value, response |-> Null]

\* an error object: its message and error.response?.data?.message
RaisesError(message, responseMessage) ==
    [kind |-> "throw", value |-> message, response |-> responseMessage]

\* the try block of graphqlRequest
graphqlTry(response) ==
    IF response.kind # "ok"
    THEN \* axios.post rejects; error.response is the answer, if there is one
         RaisesError("Request failed", response.bodyMessage)
    ELSE IF response.hasErrors   \* an array is truthy, an empty one too
         THEN IF Len(response.errors) = 0
              THEN RaisesError("Cannot read properties of undefined (reading 'message')",
                               Null)
              ELSE RaisesError(response.errors[1].message, Null)
         ELSE Returns("data")

\* graphqlRequest: the catch block wraps whatever the try block has thrown
graphqlRequest(response) ==
    LET outcome == graphqlTry(response) IN
    IF outcome.kind = "return"
    THEN [status |-> "fulfilled", message |-> Null]
    ELSE [status |-> "rejected",
          message |-> IF outcome.response # Null
                      THEN outcome.response
                      ELSE "GitHub GraphQL request failed"]

GraphqlInit ==
    /\ BackgroundIdle
    /\ SignedIn
    /\ repoInput = <<>>
    /\ loading = FALSE
    /\ analysisError = Null
    /\ analysisResult = NoRun
    /\ inFlight = 0
    /\ toast = Null
    /\ graphqlCall = NoRun

GraphqlRest == UNCHANGED <<healthVars, labelVars, hookVars, authVars, analyzerVars>>

\* a page calls getContributionCalendar or getRepositoryInsights
graphqlRequestCalled ==
    /\ graphqlCall.status # "pending"
    /\ \E caller \in GraphqlCallers :
           graphqlCall' = [status |-> "pending", caller |-> caller]

\* the GraphQL endpoint answers, or the request times out
graphqlRequestSettles ==
    /\ graphqlCall.status = "pending"
    /\ \E response \in GraphqlResponses :
           graphqlCall' = [caller |-> graphqlCall.caller, response |-> response]
                          @@ graphqlRequest(response)

GraphqlNext ==
    \/ graphqlRequestCalled /\ GraphqlRest
    \/ graphqlRequestSettles /\ GraphqlRest

GraphqlSpec == GraphqlInit /\ [][GraphqlNext]_vars

(***************************************************************************)
(* Properties of the health analysis, checked under Spec.                  *)
(***************************************************************************)
ClientDone == clientRun.status = "fulfilled"

ServerDone == serverRun.status = "replied" /\ serverRun.code = 200

CheckNames(checks) == [i \in 1..Len(checks) |-> checks[i].name]

CheckStatuses(checks) == [i \in 1..Len(checks) |-> checks[i].status]

PassCount(checks) == Cardinality({i \in 1..Len(checks) : checks[i].status = "pass"})

\* the days reported by the Recent Activity check
ReportedDays(run) == run.checks[3].description[2]

\* d is the number of whole days from pushed_at to now
IsWholeDaysBetween(d, pushed_at, now) ==
    /\ d * TicksPerDay <= now - pushed_at
    /\ now - pushed_at < (d + 1) * TicksPerDay

\* s is 100 * p / 7 rounded to the nearest integer, halves upward
IsRoundedSeventh(s, p) == -7 < 14 * s - 200 * p /\ 14 * s - 200 * p <= 7

StatusRank(status) ==
    CASE status = "fail" -> 0
      [] status = "warning" -> 1
      [] status = "pass" -> 2

\* C1: whatever the inputs, analyzeRepositoryHealth returns healthScore =
\* round(100 * passCount / 7), passCount being the number of checks whose
\* status is pass, hence one of 0, 14, 29, 43, 57, 71, 86, 100.
C1_HealthScoreIsRoundedPassShare ==
    ClientDone =>
        /\ IsRoundedSeventh(clientRun.healthScore, PassCount(clientRun.checks))
        /\ clientRun.healthScore \in {0, 14, 29, 43, 57, 71, 86, 100}

C1_Witness ==
    /\ ClientDone
    /\ PassCount(clientRun.checks) = 3
    /\ clientRun.healthScore = 43

HealthCheckNames ==
    << "README.md Present", "License File", "Recent Activity", "Issue Management",
       "Community Engagement", "Documentation", "Release Management" >>

\* C2: every health analysis returned, by the client analyzeRepositoryHealth
\* or by the server route POST /api/analyze/repo, holds exactly the 7 checks
\* README, License, Recent Activity, Issue Management, Community Engagement,
\* Documentation, Release Management, in this order.
C2_SevenChecksInFixedOrder ==
    /\ ClientDone => CheckNames(clientRun.checks) = HealthCheckNames
    /\ ServerDone => CheckNames(serverRun.checks) = HealthCheckNames

\* C3: with days = floor((now - pushed_at) / one day), the Recent Activity
\* check is pass exactly when days <= 30, warning exactly when 30 < days <= 90
\* and fail exactly when days > 90.
C3_RecentActivityThresholds ==
    ClientDone =>
        LET days == ReportedDays(clientRun)
            status == clientRun.checks[3].status
        IN  /\ IsWholeDaysBetween(days, clientRun.repository.pushed_at, clientRun.now)
            /\ status = "pass" <=> days <= 30
            /\ status = "warning" <=> (30 < days /\ days <= 90)
            /\ status = "fail" <=> days > 90

\* a push on the last tick of day 30 still passes
C3_Witness ==
    /\ ClientDone
    /\ clientRun.now - clientRun.repository.pushed_at = 30 * TicksPerDay + (TicksPerDay - 1)
    /\ clientRun.checks[3].status = "pass"

\* C4: the other inputs held fixed, the Community Engagement status is fail
\* for 0 and 1 contributors, warning for 2 to 4, pass from 5 on, so a higher
\* count never moves the status backward and never lowers healthScore.
C4_CommunityEngagementMonotone ==
    ClientDone =>
        LET f == clientRun.fetched
            n == Len(f.contributors)
            status == clientRun.checks[5].status
            checksWith(m) ==
                healthChecks(f.repository, f.readme, f.license, ListOf(m), f.releases,
                             ReportedDays(clientRun))
        IN  /\ status = (IF n <= 1 THEN "fail" ELSE IF n <= 4 THEN "warning" ELSE "pass")
            /\ \A m \in n..(MaxContributors + 1) :
                   /\ StatusRank(checksWith(m)[5].status) >= StatusRank(status)
                   /\ healthScoreOf(checksWith(m)) >= clientRun.healthScore

C4_Witness ==
    /\ ClientDone
    /\ Len(clientRun.fetched.contributors) = 5
    /\ clientRun.checks[5].status = "pass"

\* C5: a check returned by analyzeRepositoryHealth carries a recommendation
\* if and only if its status is not pass.
C5_RecommendationIffNotPass ==
    ClientDone =>
        \A i \in 1..Len(clientRun.checks) :
            (clientRun.checks[i].recommendation # Undefined)
                <=> (clientRun.checks[i].status # "pass")

\* all three kinds of status occur in one analysis
C5_Witness ==
    /\ ClientDone
    /\ {clientRun.checks[i].status : i \in 1..Len(clientRun.checks)}
           = {"pass", "warning", "fail"}
    /\ clientRun.repository.open_issues_count = 50

IsScenarioA(run) ==
    /\ run.fetched.readme = Null
    /\ run.fetched.license = Null
    /\ ReportedDays(run) = 5
    /\ run.fetched.repository.open_issues_count = 10
    /\ Len(run.fetched.contributors) = 1
    /\ run.fetched.repository.description = ""
    /\ Len(run.fetched.releases) = 0

\* C6: a missing README gives fail; a missing license, 50 or more open
\* issues, an empty description and no release each give warning; otherwise
\* each of these checks gives pass.  The snapshot without README and license,
\* 5 days since the push, 10 open issues, 1 contributor, an empty description
\* and no release scores 29.
C6_TwoValuedChecksAndScenarioA ==
    ClientDone =>
        LET f == clientRun.fetched
            c == clientRun.checks
        IN  /\ c[1].status = (IF f.readme = Null THEN "fail" ELSE "pass")
            /\ c[2].status = (IF f.license = Null THEN "warning" ELSE "pass")
            /\ c[4].status = (IF f.repository.open_issues_count >= 50 THEN "warning" ELSE "pass")
            /\ c[6].status = (IF f.repository.description \in {"", Null} THEN "warning" ELSE "pass")
            /\ c[7].status = (IF Len(f.releases) = 0 THEN "warning" ELSE "pass")
            /\ IsScenarioA(clientRun) =>
                   /\ CheckStatuses(c)
                          = <<"fail", "warning", "pass", "pass", "fail", "warning", "warning">>
                   /\ clientRun.healthScore = 29

C6_Witness == ClientDone /\ IsScenarioA(clientRun) /\ clientRun.healthScore = 29

\* C7: for any repository data, the server route and the client assign the
\* same status to every check name that both report.
C7_ServerAndClientAgree ==
    (/\ ClientDone
     /\ ServerDone
     /\ clientRun.now = serverRun.now
     /\ clientRun.fetched.repository = serverRun.fetched.repository
     /\ clientRun.fetched.contributors = serverRun.fetched.contributors
     /\ (clientRun.fetched.readme # Null) = serverRun.fetched.hasReadme
     /\ (clientRun.fetched.license # Null) = serverRun.fetched.hasLicense)
        => \A i \in 1..Len(clientRun.checks), j \in 1..Len(serverRun.checks) :
               clientRun.checks[i].name = serverRun.checks[j].name
                   => clientRun.checks[i].status = serverRun.checks[j].status

(***************************************************************************)
(* Properties of the classifier, checked under LabelSpec.                  *)
(***************************************************************************)
IssueContent == toLowerCase(TitleAndBody(issue.title, BodyOrEmpty(issue.body)))

AnyIncluded(content, words) == \E w \in words : includes(content, w)

\* the labels whose active rule or whose heuristic matches the content
ClientMatchedLabels(rules, content) ==
    {rules[i].label : i \in {j \in 1..Len(rules) :
                                rules[j].active /\ includes(content, rules[j].keyword)}}
        \cup (IF AnyIncluded(content, {Str_crash, Str_error, Str_broken}) THEN {"bug"} ELSE {})
        \cup (IF AnyIncluded(content, {Str_slow, Str_memory, Str_cpu})
              THEN {"performance"} ELSE {})
        \cup (IF AnyIncluded(content, {Str_ui, Str_design, Str_style}) THEN {"ui/ux"} ELSE {})
        \cup (IF AnyIncluded(content, {Str_test, Str_testing}) THEN {"testing"} ELSE {})

\* the labels of the server's table of which a keyword occurs in the content
ServerMatchedLabels(content) ==
    {labelRules[i].label : i \in {j \in 1..Len(labelRules) :
                                     AnyIncluded(content, Range(labelRules[j].keywords))}}

\* a label list is not empty and holds needs-triage only alone
NeedsTriageOnlyAlone(labels) ==
    /\ Len(labels) > 0
    /\ "needs-triage" \in Range(labels) => labels = <<"needs-triage">>

\* C9: for every title, body and activation of the rules the classifier of
\* the client and of the server returns a list that is not empty, that is
\* exactly <<needs-triage>> when no rule or heuristic matches, and in which
\* needs-triage stands with no other label.
C9_NeverEmptyNeedsTriageAlone ==
    /\ [](/\ \A i \in 1..Len(recentActivity) :
                 NeedsTriageOnlyAlone(recentActivity[i].suggestedLabels)
          /\ webhookReply.status # "idle" =>
                 /\ webhookReply.status = "labelled"
                 /\ NeedsTriageOnlyAlone(webhookReply.labels_applied)
                 /\ (webhookReply.labels_applied = <<"needs-triage">>)
                        <=> (ServerMatchedLabels(IssueContent) = {}))
    /\ [][(recentActivity' # recentActivity /\ recentActivity' # <<>>) =>
              ((recentActivity'[1].suggestedLabels = <<"needs-triage">>)
                  <=> (ClientMatchedLabels(labelingRules, IssueContent) = {}))]_vars

\* with the bug rule switched off, a title without any match is left to triage
\* by the client and by the server
C9_Witness ==
    /\ issue.title = TitleSamples[4]
    /\ ~labelingRules[1].active
    /\ Len(recentActivity) = 1
    /\ recentActivity[1].suggestedLabels = <<"needs-triage">>
    /\ webhookReply.status = "labelled"
    /\ webhookReply.labels_applied = <<"needs-triage">>

\* C10: for every title and body, the empty ones and the ones with "bug
\* report" or "feature request" included, calculateConfidence of the client
\* and of the server returns an integer from 60 to 95.
C10_ConfidenceWithin60And95 ==
    /\ \A i \in 1..Len(recentActivity) : recentActivity[i].confidence \in 60..95
    /\ webhookReply.status = "labelled" => webhookReply.confidence \in 60..95

\* a title with "bug report" whose unclamped confidence lies above 95
C10_Witness ==
    /\ includes(IssueContent, Str_bug_report)
    /\ Len(recentActivity) = 1
    /\ recentActivity[1].confidence = 95
    /\ webhookReply.status = "labelled"
    /\ webhookReply.confidence \in 60..95

\* the quantities of calculateConfidence for the issue at hand
SignalWordCount == Len(matchWords(IssueContent, ClientRelevantWords))

TotalWordCount == Len(splitWhitespace(IssueContent))

UnclampedConfidence == MathRoundDiv(1000 * SignalWordCount, TotalWordCount)

Clamp(x, lo, hi) == Min(hi, Max(lo, x))

HasBonusPhrase ==
    includes(IssueContent, Str_bug_report) \/ includes(IssueContent, Str_feature_request)

\* C11 as stated: with "bug report" or "feature request" in the content the
\* client calculateConfidence returns clamp(round(1000 * signalWordCount /
\* totalWordCount) + 15, 60, 95), without such a phrase clamp(round(1000 *
\* signalWordCount / totalWordCount), 60, 95).
C11_BonusBeforeClamp ==
    \A i \in 1..Len(recentActivity) :
        recentActivity[i].confidence =
            IF HasBonusPhrase THEN Clamp(UnclampedConfidence + 15, 60, 95)
            ELSE Clamp(UnclampedConfidence, 60, 95)

\* C11 amended: with such a phrase the client calculateConfidence returns
\* min(95, clamp(round(1000 * signalWordCount / totalWordCount), 60, 95) + 15),
\* the bonus being added to the clamped value; without such a phrase it
\* returns the clamped value.
C11_BonusAfterClamp ==
    \A i \in 1..Len(recentActivity) :
        recentActivity[i].confidence =
            IF HasBonusPhrase THEN Min(95, Clamp(UnclampedConfidence, 60, 95) + 15)
            ELSE Clamp(UnclampedConfidence, 60, 95)

\* a long text with "feature request": the ratio lies below 60, the result is 75
C11_Witness ==
    /\ HasBonusPhrase
    /\ UnclampedConfidence < 60
    /\ Len(recentActivity) = 1
    /\ recentActivity[1].confidence = 75

IsEmptyIssue == issue.title = <<>> /\ BodyOrEmpty(issue.body) = <<>>

\* C12: calculateConfidence never divides by zero, totalWordCount being at
\* least 1 for every title and body; for the empty title and the empty body
\* the classifier returns <<needs-triage>> and the confidence 60.
C12_TotalWordCountPositive ==
    /\ TotalWordCount >= 1
    /\ IsEmptyIssue =>
           /\ \A i \in 1..Len(recentActivity) :
                  /\ recentActivity[i].suggestedLabels = <<"needs-triage">>
                  /\ recentActivity[i].confidence = 60
           /\ webhookReply.status # "idle" =>
                  /\ webhookReply.status = "labelled"
                  /\ webhookReply.labels_applied = <<"needs-triage">>
                  /\ webhookReply.confidence = 60

C12_Witness ==
    /\ IsEmptyIssue
    /\ Len(recentActivity) = 1
    /\ recentActivity[1].confidence = 60
    /\ webhookReply.status = "labelled"
    /\ webhookReply.confidence = 60

\* a step of analyzeRepositoryIssues that puts a fresh analysis on display
ClientAnalysed == recentActivity' # recentActivity /\ Len(recentActivity') = 1

AllRulesActive(rules) == \A i \in 1..Len(rules) : rules[i].active

\* C13: after any sequence of toggleRule calls, analyzeIssueContent suggests
\* the label of a rule of the table only if that rule is active: the label of
\* every inactive rule is absent from the result.
C13_InactiveRuleLabelAbsent ==
    [][ClientAnalysed =>
           \A i \in 1..Len(labelingRules) :
               ~labelingRules[i].active =>
                   labelingRules[i].label \notin Range(recentActivity'[1].suggestedLabels)]_vars

IsScenarioD == issue.title = TitleSamples[2] /\ BodyOrEmpty(issue.body) = <<>>

\* C14: with the default rules all active, the title "Add dark mode support"
\* with an empty body is given exactly the label set {enhancement}, by the
\* client analyzeIssueContent and by the server analyzeContentForLabels.
C14_DarkModeIsEnhancement ==
    [][/\ (IsScenarioD /\ webhookReply' # webhookReply) =>
              /\ webhookReply'.status = "labelled"
              /\ Range(webhookReply'.labels_applied) = {"enhancement"}
       /\ (IsScenarioD /\ ClientAnalysed /\ AllRulesActive(labelingRules)) =>
              Range(recentActivity'[1].suggestedLabels) = {"enhancement"}]_vars

CanonicalLabels ==
    { "bug", "enhancement", "documentation", "performance", "security", "ui/ux",
      "testing", "needs-triage" }

\* C15: with every client rule active, for every title and body the client
\* analyzeIssueContent and the server analyzeContentForLabels return the same
\* set of labels, each of them one of bug, enhancement, documentation,
\* performance, security, ui/ux, testing, needs-triage.
C15_ClientAndServerSameLabels ==
    [][(ClientAnalysed /\ AllRulesActive(labelingRules) /\ webhookReply.status = "labelled") =>
           /\ Range(recentActivity'[1].suggestedLabels) = Range(webhookReply.labels_applied)
           /\ Range(webhookReply.labels_applied) \subseteq CanonicalLabels]_vars

\* the number of maximal runs of characters other than white space
WordCount(s) ==
    Cardinality({i \in 1..Len(s) : ~IsSpace(s[i]) /\ (i = 1 \/ IsSpace(s[i - 1]))})

\* C16: for content with at least one word, the totalWordCount of
\* calculateConfidence is the number of words of the lower-cased `title body`,
\* whatever white space the inputs have and whether or not the body is empty.
C16_TotalWordCountIsWordCount ==
    (/\ Len(recentActivity) = 1 \/ webhookReply.status = "labelled"
     /\ WordCount(IssueContent) >= 1)
        => TotalWordCount = WordCount(IssueContent)

(***************************************************************************)
(* Properties of the webhook route, checked under WebhookSpec.             *)
(***************************************************************************)
WebhookReplied == webhookExchange.status = "replied"

\* the request ran through the named stage of the route
Reached(stage) == WebhookReplied /\ stage \in Range(webhookExchange.stages)

LabelsApplied == WebhookReplied /\ "labels_applied" \in webhookExchange.response.fields

ExpectedSignature ==
    hmacSignature(webhookSecret, JSONstringify(webhookExchange.request.body))

\* C17: the route runs the rate limiters, then verifyGitHubSignature, then the
\* handler: the handler runs, and a labels_applied response is sent, only for
\* a request that has the X-Hub-Signature-256 header while WEBHOOK_SECRET is
\* configured and the header equals 'sha256=' followed by the HMAC-SHA256 of
\* the JSON body under that secret.
C17_LabelsOnlyAfterSignatureCheck ==
    /\ Reached("handler") =>
           webhookExchange.stages =
               <<"limiter", "webhookLimiter", "verifyGitHubSignature", "handler">>
    /\ LabelsApplied => Reached("handler")
    /\ (Reached("handler") \/ LabelsApplied) =>
           /\ webhookExchange.request.signature.length > 0
           /\ Truthy(webhookSecret)
           /\ webhookExchange.request.signature = ExpectedSignature

C17_Witness ==
    /\ LabelsApplied
    /\ Reached("verifyGitHubSignature")
    /\ webhookExchange.request.signature = ExpectedSignature
    /\ webhookExchange.response.labels_applied = <<"bug">>

\* C18: with WEBHOOK_SECRET configured, a request whose X-Hub-Signature-256
\* header is present and differs from the expected signature, in content or in
\* length, gets 401 'Unauthorized: Invalid signature'; a request without the
\* header, or any request while the secret is missing, gets 401 'Unauthorized:
\* Missing signature or secret'; a signature failure gets no other status.
C18_SignatureFailureIs401 ==
    Reached("verifyGitHubSignature") =>
        /\ (/\ Truthy(webhookSecret)
            /\ webhookExchange.request.signature.length > 0
            /\ webhookExchange.request.signature # ExpectedSignature)
               => /\ webhookExchange.response.status = 401
                  /\ webhookExchange.response.text = "Unauthorized: Invalid signature"
        /\ (webhookExchange.request.signature.length = 0 \/ ~Truthy(webhookSecret))
               => /\ webhookExchange.response.status = 401
                  /\ webhookExchange.response.text =
                         "Unauthorized: Missing signature or secret"

IsRelevantEvent ==
    /\ webhookExchange.request.event \in {"issues", "pull_request"}
    /\ webhookExchange.request.body.action = "opened"

UnmatchedItems ==
    {k \in 1..Len(WebhookItemSamples) :
        ServerMatchedLabels(toLowerCase(TitleAndBody(WebhookItemSamples[k].title,
                                BodyOrEmpty(WebhookItemSamples[k].body)))) = {}}

\* issue || pull_request of the request
RequestItem ==
    IF webhookExchange.request.body.issue # 0 THEN webhookExchange.request.body.issue
    ELSE webhookExchange.request.body.pull_request

\* C20: for an opened issue or pull request whose title and body match no
\* labeling rule, the handler answers success with the message 'No labels
\* applied - content did not match any rules' and without a labels_applied field.
C20_UnmatchedContentNotLabelled ==
    (Reached("handler") /\ IsRelevantEvent /\ RequestItem \in UnmatchedItems) =>
        /\ webhookExchange.response.status = 200
        /\ webhookExchange.response.text =
               "No labels applied - content did not match any rules"
        /\ "labels_applied" \notin webhookExchange.response.fields

(***************************************************************************)
(* Failures of the fetches, checked under Spec.                            *)
(***************************************************************************)
\* C22: analyzeRepositoryHealth fails if and only if the fetch of the
\* repository metadata fails; a failed fetch of the README, the license, the
\* contributors, the issues, the pull requests or the releases counts as the
\* item being absent or the list being empty, and a result with all 7 checks
\* is returned.
C22_FailsOnlyWithRepositoryFetch ==
    /\ clientRun.status = "rejected" => "repository" \in clientRun.rejectedFetches
    /\ clientRun.status = "fulfilled" => Len(clientRun.checks) = 7

(***************************************************************************)
(* Properties of the authentication, checked under AuthSpec and, for the   *)
(* progress of initializeAuth, under AuthFairSpec.                         *)
(***************************************************************************)
\* C21: the pages of the application (Layout and the routes under it) are
\* rendered only when user is set and isLoading is false; while isLoading is
\* true the loading screen is rendered, and when isLoading is false and user
\* is null the login page is rendered.
C21_PagesOnlyForSignedInUser ==
    /\ screen = "pages" => (user # Null /\ ~isLoading)
    /\ isLoading => screen = "loading"
    /\ (~isLoading /\ user = Null) => screen = "login"

C21_Witness ==
    /\ screen = "pages"
    /\ user = GitHubUser
    /\ token \in AccessTokens

\* the step of initializeAuth that handles an OAuth callback
CallbackRuns == authPc = "mounted" /\ authPc' # "mounted" /\ IsCallback(location)

\* C23: handleOAuthCallback sends the code to the token exchange and stores an
\* access token only if the state parameter equals the oauth_state that
\* login() saved; when they differ or none was saved there is no exchange
\* request, no token is written to the context, localStorage or githubService,
\* user stays null and error is set.
C23_ExchangeOnlyForSavedState ==
    [][/\ (CallbackRuns /\ location.state # localStorage.oauth_state) =>
              /\ exchangeRequests' = 0
              /\ authPc' = "idle"
              /\ token' = Null
              /\ serviceToken' = Null
              /\ localStorage'.github_token = localStorage.github_token
              /\ user' = Null
              /\ error' # Null
       /\ exchangeRequests' > exchangeRequests =>
              (CallbackRuns /\ location.state = localStorage.oauth_state)
       /\ (token' # token /\ token' \in AccessTokens /\ authPc # "mounted") =>
              (authPc = "exchange" /\ exchangeRequests = 1)]_vars

C23_Witness ==
    /\ authPc = "idle"
    /\ error = "Invalid OAuth state parameter"
    /\ localStorage.oauth_state \in OAuthStates
    /\ exchangeRequests = 0
    /\ token = Null

\* C24: a saved oauth_state validates at most one callback: once a callback has
\* passed the check, a later callback carrying the same state value is
\* rejected, unless login() has been called in between.
C24_StateValidatesOneCallback ==
    [][(CallbackRuns /\ location.state = oauthHistory.validated) =>
           /\ authPc' = "idle"
           /\ error' = "Invalid OAuth state parameter"
           /\ exchangeRequests' = 0
           /\ token' = Null]_vars

C24_Witness ==
    /\ oauthHistory.replayed
    /\ oauthHistory.validated \in OAuthStates
    /\ authPc = "idle"
    /\ error = "Invalid OAuth state parameter"

\* C25: every run of initializeAuth ends with isLoading = false, on each of
\* its paths, provided every network call settles: the loading screen is not
\* shown forever.
C25_LoadingEnds ==
    /\ [](authPc = "idle" => ~isLoading)
    /\ (isLoading ~> ~isLoading)

C25_Witness ==
    /\ authPc = "idle"
    /\ ~isLoading
    /\ lastResponse = "exchange failed"
    /\ screen = "login"

\* C26: when initializeAuth finds a saved token and getCurrentUser fails with
\* it, at the end of initializeAuth the token is removed everywhere:
\* localStorage has no github_token, the context token and the token of
\* githubService are null, user is null and error is 'Authentication expired.
\* Please sign in again.'.
C26_RejectedSavedTokenRemoved ==
    [][(authPc = "savedUser" /\ lastResponse' = "getCurrentUser rejected") =>
           /\ authPc' = "idle"
           /\ ~isLoading'
           /\ localStorage'.github_token = Null
           /\ token' = Null
           /\ serviceToken' = Null
           /\ user' = Null
           /\ error' = "Authentication expired. Please sign in again."]_vars

C26_Witness ==
    /\ authPc = "idle"
    /\ lastResponse = "getCurrentUser rejected"
    /\ error = "Authentication expired. Please sign in again."
    /\ localStorage.github_token = Null

\* C27: whenever isLoading is false, a stored token implies a fetched user: if
\* the context token or the github_token of localStorage is set then user is
\* set; an OAuth callback that fails leaves no access token stored.
C27_StoredTokenImpliesUser ==
    ~isLoading => ((token # Null \/ localStorage.github_token # Null) => user # Null)

\* C28: whenever no operation of the authentication is in progress the context
\* token, the github_token of localStorage and the token of githubService are
\* all null or all the same value; after logout they are null together with
\* user, error and oauth_state.
C28_TokenStoresAgree ==
    /\ authPc = "idle" => (token = localStorage.github_token /\ token = serviceToken)
    /\ authPc = "loggedOut" =>
           /\ token = Null
           /\ serviceToken = Null
           /\ localStorage = [github_token |-> Null, oauth_state |-> Null]
           /\ user = Null
           /\ error = Null

(***************************************************************************)
(* Properties of RepoAnalyzer, checked under AnalyzerFairSpec.             *)
(***************************************************************************)
\* the input has no text, or no owner and repository around a first slash
InvalidRepoInput ==
    \/ \A i \in 1..Len(repoInput) : IsSpace(repoInput[i])
    \/ ~\E i \in 2..Len(repoInput) :
           /\ repoInput[i] = "/"
           /\ \A j \in 1..(i - 1) : repoInput[j] # "/"
           /\ i < Len(repoInput)
           /\ repoInput[i + 1] # "/"

\* a step of handleAnalyze: the input stays and no analysis settles
HandleAnalyzeStep == repoInput' = repoInput /\ inFlight' >= inFlight

\* C30: an invocation of handleAnalyze that fails validation (empty input, no
\* token, or an input without owner and repository) issues no request and
\* leaves loading, error and analysisResult as they are; every invocation that
\* sets loading to true sets it back to false when the analysis has succeeded
\* or failed, so loading is true only while a request is in flight.
C30_LoadingOnlyWhileInFlight ==
    /\ [][/\ (HandleAnalyzeStep /\ (InvalidRepoInput \/ token = Null)) =>
                 /\ inFlight' = inFlight
                 /\ loading' = loading
                 /\ analysisError' = analysisError
                 /\ analysisResult' = analysisResult
          /\ (loading' /\ ~loading) => inFlight' = inFlight + 1]_vars
    /\ [](loading => inFlight > 0)
    /\ (loading ~> ~loading)

C30_Witness ==
    /\ toast = "Please use the format: owner/repository"
    /\ repoInput = << "o", "/" >>
    /\ analysisError = "Repository not found or access denied."
    /\ ~loading
    /\ inFlight = 0

(***************************************************************************)
(* Properties of graphqlRequest, checked under GraphqlSpec.                *)
(***************************************************************************)
\* the endpoint has answered the call with a non-empty errors array
AnsweredWithErrors ==
    /\ graphqlCall.status \in {"fulfilled", "rejected"}
    /\ graphqlCall.response.kind = "ok"
    /\ graphqlCall.response.hasErrors
    /\ Len(graphqlCall.response.errors) > 0

\* C29: when the GraphQL endpoint answers with an errors array, graphqlRequest
\* rejects with an Error whose message is the message of the first entry of
\* that array.
C29_RejectsWithFirstErrorMessage ==
    AnsweredWithErrors =>
        /\ graphqlCall.status = "rejected"
        /\ graphqlCall.message = graphqlCall.response.errors[1].message

====
